---------------------------- MODULE Spec2Model ----------------------------
(***************************************************************************)
(* The two MCP tool servers of keyword-automation:                         *)
(*   src/mcp-servers/crm-server.py        (server "crm-integration")       *)
(*   src/mcp-servers/analytics-server.py  (server "analytics")             *)
(* Each is its own process with its own SQLite file.  A behaviour of this  *)
(* module is a run of one of the two processes: `server` says which.       *)
(*                                                                         *)
(* Modelling conventions                                                   *)
(*   - a table is the sequence of its rows in rowid (insertion) order;     *)
(*   - Python None / SQL NULL / JSON null of a scalar is the value None;   *)
(*   - a dict (tool arguments, a row returned as dict) is a function whose *)
(*     DOMAIN is the set of keys present;                                  *)
(*   - JSON text is a sequence of tokens (punctuation and string tokens);  *)
(*   - a point in time is a number of hours; a timestamp text              *)
(*     'YYYY-MM-DD HH:..' is the sequence <<day, hour>>, a date text       *)
(*     'YYYY-MM-DD' the sequence <<day>>; texts compare lexicographically. *)
(***************************************************************************)
EXTENDS Integers, Sequences, FiniteSets, TLC

VARIABLES
    server,          \* which of the two programs runs: Server(...) name
    tables,          \* names of the tables present in the store file
    contacts,        \* crm.db: table contacts
    deals,           \* crm.db: table deals
    sqlite_sequence, \* crm.db: AUTOINCREMENT bookkeeping, table -> last id
    analytics,       \* chatbot.db: table analytics (events)
    conversations,   \* chatbot.db: table conversations
    pc,              \* position of the running get_metrics call
    frame,           \* locals of the get_metrics call of the last request, if any
    wrote,           \* a conversation row was written since that call began
    created,         \* history: the create_contact calls, <<arguments, id>>
    result           \* outcome of the last call_tool request

vars == <<server, tables, contacts, deals, sqlite_sequence, analytics,
          conversations, pc, frame, wrote, created, result>>

\* the contents of the store file
store == <<tables, contacts, deals, sqlite_sequence, analytics, conversations>>

-----------------------------------------------------------------------------
(* Bounds of the model *)

MaxContacts == 2
MaxDeals == 2
MaxEvents == 2
MaxConvs == 2
NumFlows == 6
MaxPerFlow == 2

-----------------------------------------------------------------------------
(* Values *)

None == "None"

JsonNull == [null |-> TRUE]

NoResult == [tool |-> "", args |-> <<>>, kind |-> "none", text |-> JsonNull]

\* no get_metrics call to speak of
NoFrame ==
    [args |-> <<>>, days |-> 0, now |-> 0, since_date |-> <<0>>,
     total_conversations |-> 0, completed_flows |-> 0]

\* dict.get(key, default)
Get(d, key, default) == IF key \in DOMAIN d THEN d[key] ELSE default

Max(S) == CHOOSE x \in S : \A y \in S : y <= x

-----------------------------------------------------------------------------
(* json.dumps / json.loads on the shapes the servers store *)

Punct(c) == [tok |-> c, val |-> ""]
Str(s) == [tok |-> "str", val |-> s]

RECURSIVE JsonItems(_)
JsonItems(xs) ==
    IF xs = <<>> THEN <<>>
    ELSE IF Len(xs) = 1 THEN <<Str(xs[1])>>
    ELSE <<Str(xs[1]), Punct(",")>> \o JsonItems(Tail(xs))

\* json.dumps of a list of strings
JsonDumpsList(xs) == <<Punct("[")>> \o JsonItems(xs) \o <<Punct("]")>>

\* json.loads of the text of a list of strings
JsonLoadsList(text) ==
    [i \in 1..(Len(text) - 1) \div 2 |-> text[2 * i].val]

RECURSIVE JsonMembers(_)
JsonMembers(kvs) ==
    IF kvs = <<>> THEN <<>>
    ELSE LET m == <<Str(kvs[1][1]), Punct(":"), Str(kvs[1][2])>>
         IN  IF Len(kvs) = 1 THEN m ELSE m \o <<Punct(",")>> \o JsonMembers(Tail(kvs))

\* json.dumps of a dict of strings, given as its items in insertion order
JsonDumpsDict(kvs) == <<Punct("{")>> \o JsonMembers(kvs) \o <<Punct("}")>>

\* `x or []` on a list argument that may be absent (None) or empty
OrEmptyList(d, key) == IF key \in DOMAIN d THEN d[key] ELSE <<>>

\* `text or '[]'` on a TEXT column: NULL and '' are both falsy
OrEmptyJson(text) == IF text = <<>> THEN <<Punct("["), Punct("]")>> ELSE text

-----------------------------------------------------------------------------
(* The CRM server *)

CrmTools == {"create_contact", "get_contact", "create_deal"}
AnalyticsTools == {"track_event", "get_metrics"}

ToolNames == IF server = "crm-integration" THEN CrmTools ELSE AnalyticsTools

\* the tool names a host may send
RequestedNames == CrmTools \cup AnalyticsTools \cup {"nonexistent_tool"}

ContactArgs ==
    { [name |-> "Ana"],
      [name |-> "Ana", tags |-> <<>>],
      [name |-> "Bo", email |-> "bo@acme.io", phone |-> "555", company |-> "Acme",
       tags |-> <<"vip", "lead">>],
      [name |-> "Cy", email |-> "", tags |-> <<"vip">>] }

DealArgs ==
    { [contact_id |-> 1, title |-> "Renewal", value |-> 500],
      [contact_id |-> 1, title |-> "Upsell", value |-> 20, stage |-> "won"],
      [contact_id |-> 9, title |-> "Renewal", value |-> 500],
      [contact_id |-> -1, title |-> "Ghost", value |-> 0, stage |-> "lost"] }

ContactIds == 0..(MaxContacts + 1)

Ok(tool, args, value) == [tool |-> tool, args |-> args, kind |-> "ok", text |-> value]

Error(tool, args, type, message) ==
    [tool |-> tool, args |-> args, kind |-> "error",
     text |-> [error |-> type, message |-> message]]

\* a statement on a table the store file does not have
NoSuchTable(tool, args, table) ==
    Error(tool, args, "OperationalError", <<"no such table: ", table>>)

\* INTEGER PRIMARY KEY AUTOINCREMENT: one more than the largest rowid the
\* table ever held
NextRowIdReuse(table, rows) == Max({0} \cup {rows[i].id : i \in DOMAIN rows})

NextRowId(table, rows) ==
    Max({sqlite_sequence[table]} \cup {rows[i].id : i \in DOMAIN rows}) + 1

\* SimpleCRM.init_db: CREATE TABLE IF NOT EXISTS contacts / deals
InitDb == tables' = tables \cup {"contacts", "deals"}

\* INSERT INTO <table> ...: one new row after the rows the table holds
InsertOrReplace(rows, row) ==
    IF rows = <<>> THEN <<row>> ELSE [rows EXCEPT ![Len(rows)] = row]

InsertRow(rows, row) == Append(rows, row)

\* SimpleCRM.create_contact: the row of INSERT INTO contacts
ContactRow(id, a) ==
    [id |-> id, name |-> a.name, email |-> Get(a, "email", None),
     phone |-> Get(a, "phone", None), company |-> Get(a, "company", None),
     tags |-> JsonDumpsList(OrEmptyList(a, "tags")), custom_fields |-> None]

\* SimpleCRM.get_contact: SELECT * FROM contacts WHERE id = ?, fetchone, decode
DecodeContactShifted(row) ==
    [id |-> row.id, name |-> row.name, email |-> row.email, phone |-> row.company,
     company |-> row.phone, tags |-> JsonLoadsList(OrEmptyJson(row.tags))]

DecodeContact(row) ==
    [id |-> row.id, name |-> row.name, email |-> row.email, phone |-> row.phone,
     company |-> row.company, tags |-> JsonLoadsList(OrEmptyJson(row.tags))]

SelectContact(contact_id) ==
    LET hits == {i \in DOMAIN contacts : contacts[i].id = contact_id}
    IN  IF hits = {} THEN JsonNull
        ELSE DecodeContact(contacts[CHOOSE i \in hits : \A j \in hits : i <= j])

\* SimpleCRM.create_deal: the row of INSERT INTO deals; foreign keys are
\* declared but the connection never turns their enforcement on
DealRow(id, a) ==
    [id |-> id, contact_id |-> a.contact_id, title |-> a.title, value |-> a.value,
     stage |-> Get(a, "stage", "new")]

\* raise ValueError(f"Unknown tool: {name}")
UnknownToolAnonymous(name, args) ==
    Error(name, args, "ValueError", <<"Unknown tool: ">>)

UnknownTool(name, args) ==
    Error(name, args, "ValueError", <<"Unknown tool: ", name>>)


\* sqlite3.connect(...) never issues PRAGMA foreign_keys = ON, and SQLite
\* leaves FOREIGN KEY clauses unenforced unless it is issued
ForeignKeysOn == TRUE

ForeignKeys == FALSE

\* handle_call_tool, name == "create_contact"
CreateContact ==
    /\ server = "crm-integration"
    /\ pc = "idle"
    /\ Len(contacts) < MaxContacts
    /\ \E a \in ContactArgs :
          LET id == NextRowId("contacts", contacts)
          IN  /\ contacts' = InsertRow(contacts, ContactRow(id, a))
              /\ sqlite_sequence' = [sqlite_sequence EXCEPT !["contacts"] = id]
              /\ created' = Append(created, <<a, id>>)
              /\ result' = Ok("create_contact", a,
                              [contact_id |-> id, status |-> "created"])
    /\ UNCHANGED <<server, tables, deals, analytics, conversations, pc, frame, wrote>>

\* handle_call_tool, name == "get_contact"
GetContact ==
    /\ server = "crm-integration"
    /\ pc = "idle"
    /\ \E id \in ContactIds :
          result' = Ok("get_contact", [contact_id |-> id], SelectContact(id))
    /\ UNCHANGED <<server, tables, contacts, deals, sqlite_sequence, analytics,
                   conversations, pc, frame, wrote, created>>

\* handle_call_tool, name == "create_deal"
CreateDeal ==
    /\ server = "crm-integration"
    /\ pc = "idle"
    /\ Len(deals) < MaxDeals
    /\ \E a \in DealArgs :
          IF ForeignKeys /\ \A i \in DOMAIN contacts : contacts[i].id # a.contact_id
          THEN /\ result' = Error("create_deal", a, "IntegrityError",
                                  <<"FOREIGN KEY constraint failed">>)
               /\ UNCHANGED <<deals, sqlite_sequence>>
          ELSE LET id == NextRowId("deals", deals)
               IN  /\ deals' = InsertRow(deals, DealRow(id, a))
                   /\ sqlite_sequence' = [sqlite_sequence EXCEPT !["deals"] = id]
                   /\ result' = Ok("create_deal", a,
                                   [deal_id |-> id, status |-> "created"])
    /\ UNCHANGED <<server, tables, contacts, analytics, conversations, pc, frame,
                   wrote, created>>

\* handle_call_tool of either server, no branch matches the name
CallUnknownTool ==
    /\ pc = "idle"
    /\ \E name \in RequestedNames \ ToolNames :
          result' = UnknownTool(name, <<>>)
    /\ frame' = NoFrame
    /\ wrote' = FALSE
    /\ UNCHANGED <<server, tables, contacts, deals, sqlite_sequence, analytics,
                   conversations, pc, created>>

\* the module is imported again (the process restarts): the CRM server
\* constructs SimpleCRM, which runs init_db; Analytics.__init__ only keeps
\* the path
Start ==
    /\ pc = "idle"
    /\ IF server = "crm-integration" THEN InitDb ELSE UNCHANGED tables
    /\ result' = NoResult
    /\ frame' = NoFrame
    /\ wrote' = FALSE
    /\ UNCHANGED <<server, contacts, deals, sqlite_sequence, analytics,
                   conversations, pc, created>>

-----------------------------------------------------------------------------
(* The analytics server *)

HoursPerDay == 24
DefaultDays == 7
TopLimit == 5

At(day, hour) == day * HoursPerDay + hour

EventArgs ==
    { [event_type |-> "signup", metadata |-> << <<"src", "ad">> >>],
      [event_type |-> "signup", metadata |-> <<>>],
      [event_type |-> "signup"] }

MetricsArgs == { <<>>, [days |-> 1] }
NowSet == { At(10, 15), At(10, 0) }

Statuses == {"active", "completed"}
Flows == {"welcome", "support"}
CreatedAtSet == { At(3, 14), At(2, 23) }

\* strftime('%Y-%m-%d'): the date of a point in time, the time of day dropped
StrftimeHour(t) == <<t \div HoursPerDay, t % HoursPerDay>>

Strftime(t) == <<t \div HoursPerDay>>

\* the text of a DATETIME column, 'YYYY-MM-DD HH:MM:SS'
FormatTimestamp(t) == <<t \div HoursPerDay, t % HoursPerDay>>

\* SQLite's >= on two TEXT values: bytewise, a proper prefix is smaller
RECURSIVE TextGE(_, _)
TextGE(a, b) ==
    IF b = <<>> THEN TRUE
    ELSE IF a = <<>> THEN FALSE
    ELSE IF a[1] # b[1] THEN a[1] > b[1]
    ELSE TextGE(Tail(a), Tail(b))

\* the rows of WHERE created_at >= ?
Since(since_date) ==
    {i \in DOMAIN conversations : TextGE(conversations[i].created_at, since_date)}

\* SELECT COUNT(*) FROM conversations WHERE created_at >= ?
CountSince(since_date) == Cardinality(Since(since_date))

\* SELECT COUNT(*) ... WHERE status = 'completed' AND created_at >= ?
CountCompletedAnyTime(since_date) ==
    Cardinality({i \in DOMAIN conversations : conversations[i].status = "completed"})

CountCompletedSince(since_date) ==
    Cardinality({i \in Since(since_date) : conversations[i].status = "completed"})

\* the groups of GROUP BY current_flow and the COUNT(*) of each
Groups(since_date) == {conversations[i].current_flow : i \in Since(since_date)}

GroupCount(flow, since_date) ==
    Cardinality({i \in Since(since_date) : conversations[i].current_flow = flow})

\* ORDER BY count DESC LIMIT k: every order of the groups by descending
\* count, groups of equal count in any order, cut after k rows
RECURSIVE OrderByCountDesc(_, _, _)
OrderByCountDesc(G, since_date, k) ==
    IF G = {} \/ k = 0 THEN {<<>>}
    ELSE LET best == {g \in G : \A h \in G :
                         GroupCount(h, since_date) <= GroupCount(g, since_date)}
         IN  UNION { { <<[flow |-> g, count |-> GroupCount(g, since_date)]>> \o s :
                         s \in OrderByCountDesc(G \ {g}, since_date, k - 1) } :
                     g \in best }

\* the results cursor.fetchall() may return for the third query
TopFlowsNoLimit(since_date) ==
    OrderByCountDesc(Groups(since_date), since_date, Cardinality(Groups(since_date)))

TopFlows(since_date) == OrderByCountDesc(Groups(since_date), since_date, TopLimit)

RECURSIVE GCD(_, _)
GCD(a, b) == IF b = 0 THEN a ELSE GCD(b, a % b)

\* Python's true division of two ints, as the fraction <<numerator, denominator>>
\* in lowest terms
Quotient(a, b) == LET g == GCD(a, b) IN <<a \div g, b \div g>>

\* completed_flows / total_conversations if total_conversations > 0 else 0
CompletionRateFloor(completed_flows, total_conversations) ==
    IF total_conversations > 0
    THEN <<completed_flows \div total_conversations, 1>>
    ELSE <<0, 1>>

CompletionRate(completed_flows, total_conversations) ==
    IF total_conversations > 0
    THEN Quotient(completed_flows, total_conversations)
    ELSE <<0, 1>>

\* handle_call_tool, name == "track_event"
TrackEvent ==
    /\ server = "analytics"
    /\ pc = "idle"
    /\ \E a \in EventArgs :
          \/ /\ "analytics" \in tables
             /\ Len(analytics) < MaxEvents
             /\ analytics' = InsertRow(analytics,
                    [event_type |-> a.event_type,
                     metadata |-> JsonDumpsDict(Get(a, "metadata", <<>>))])
             /\ result' = Ok("track_event", a, [status |-> "tracked"])
          \/ /\ "analytics" \notin tables
             /\ result' = NoSuchTable("track_event", a, "analytics")
             /\ UNCHANGED analytics
    /\ frame' = NoFrame
    /\ wrote' = FALSE
    /\ UNCHANGED <<server, tables, contacts, deals, sqlite_sequence, conversations,
                   pc, created>>

\* handle_call_tool, name == "get_metrics": Analytics.get_metrics up to the
\* first query
GetMetricsBegin(argset, nowset) ==
    /\ server = "analytics"
    /\ pc = "idle"
    /\ \E a \in argset, t \in nowset :
          \/ /\ "conversations" \in tables
             /\ LET days == Get(a, "days", DefaultDays)
                    since_date == Strftime(t - days * HoursPerDay)
                IN  frame' = [args |-> a, days |-> days, now |-> t,
                              since_date |-> since_date,
                              total_conversations |-> CountSince(since_date),
                              completed_flows |-> 0]
             /\ pc' = "completed"
             /\ wrote' = FALSE
             /\ result' = NoResult
          \/ /\ "conversations" \notin tables
             /\ result' = NoSuchTable("get_metrics", a, "conversations")
             /\ frame' = NoFrame
             /\ wrote' = FALSE
             /\ UNCHANGED pc
    /\ UNCHANGED <<server, tables, contacts, deals, sqlite_sequence, analytics,
                   conversations, created>>

\* Analytics.get_metrics: the second query
GetMetricsCompleted ==
    /\ pc = "completed"
    /\ frame' = [frame EXCEPT
                    !.completed_flows = CountCompletedSince(frame.since_date)]
    /\ pc' = "top"
    /\ UNCHANGED <<server, tables, contacts, deals, sqlite_sequence, analytics,
                   conversations, wrote, created, result>>

\* Analytics.get_metrics: the third query, the report, and the reply
GetMetricsTop ==
    /\ pc = "top"
    /\ \E top_flows \in TopFlows(frame.since_date) :
          result' = Ok("get_metrics", frame.args,
                       [period_days |-> frame.days,
                        total_conversations |-> frame.total_conversations,
                        completed_flows |-> frame.completed_flows,
                        completion_rate |-> CompletionRate(frame.completed_flows,
                                                           frame.total_conversations),
                        top_flows |-> top_flows])
    /\ pc' = "idle"
    /\ UNCHANGED <<server, tables, contacts, deals, sqlite_sequence, analytics,
                   conversations, frame, wrote, created>>

\* the chatbot application, another process on the same store file, records
\* a conversation
InsertConversation ==
    /\ "conversations" \in tables
    /\ Len(conversations) < MaxConvs
    /\ \E s \in Statuses, f \in Flows, t \in CreatedAtSet :
          conversations' = InsertRow(conversations,
              [status |-> s, current_flow |-> f, created_at |-> FormatTimestamp(t)])
    /\ wrote' = (frame # NoFrame)
    /\ UNCHANGED <<server, tables, contacts, deals, sqlite_sequence, analytics,
                   pc, frame, created, result>>

-----------------------------------------------------------------------------
(* Specifications *)

\* The CRM server has run init_db on its store file; the analytics server
\* opens a store file that the chatbot application has or has not set up.
Init ==
    /\ server \in {"crm-integration", "analytics"}
    /\ tables \in IF server = "crm-integration"
                  THEN {{"contacts", "deals"}}
                  ELSE {{}, {"analytics", "conversations"}}
    /\ contacts = <<>>
    /\ deals = <<>>
    /\ sqlite_sequence = [t \in {"contacts", "deals"} |-> 0]
    /\ analytics = <<>>
    /\ conversations = <<>>
    /\ pc = "idle"
    /\ frame = NoFrame
    /\ wrote = FALSE
    /\ created = <<>>
    /\ result = NoResult

Next ==
    \/ CreateContact
    \/ GetContact
    \/ CreateDeal
    \/ CallUnknownTool
    \/ Start
    \/ TrackEvent
    \/ GetMetricsBegin(MetricsArgs, NowSet)
    \/ GetMetricsCompleted
    \/ GetMetricsTop
    \/ InsertConversation

Spec == Init /\ [][Next]_vars

\* The analytics server on a store holding many flows: of flow i, cnt[i]
\* conversations inside the window; the flows being interchangeable, the
\* counts are taken in non-increasing order.  One older conversation, of any
\* of the flows, lies outside the window.
FlowCounts ==
    {cnt \in [1..NumFlows -> 0..MaxPerFlow] :
        \A i \in 1..(NumFlows - 1) : cnt[i] >= cnt[i + 1]}

RECURSIVE TableOf(_, _)
TableOf(cnt, i) ==
    IF i > NumFlows THEN <<>>
    ELSE [k \in 1..cnt[i] |->
             [status |-> "active", current_flow |-> ToString(i),
              created_at |-> FormatTimestamp(At(9, 12))]]
         \o TableOf(cnt, i + 1)

InitTop ==
    /\ server = "analytics"
    /\ tables = {"analytics", "conversations"}
    /\ contacts = <<>>
    /\ deals = <<>>
    /\ sqlite_sequence = [t \in {"contacts", "deals"} |-> 0]
    /\ analytics = <<>>
    /\ \E cnt \in FlowCounts, old \in 1..NumFlows :
          conversations = TableOf(cnt, 1)
              \o <<[status |-> "completed", current_flow |-> ToString(old),
                    created_at |-> FormatTimestamp(At(1, 8))]>>
    /\ pc = "idle"
    /\ frame = NoFrame
    /\ wrote = FALSE
    /\ created = <<>>
    /\ result = NoResult

NextTop ==
    \/ GetMetricsBegin({<<>>}, {At(10, 15)})
    \/ GetMetricsCompleted
    \/ GetMetricsTop

SpecTop == InitTop /\ [][NextTop]_vars

-----------------------------------------------------------------------------
(* Properties *)

IsPrefix(s, t) == Len(s) <= Len(t) /\ \A i \in DOMAIN s : s[i] = t[i]

\* a successful call of the tool just replaced the last outcome
ToolStep(tool) == result' # result /\ result'.tool = tool /\ result'.kind = "ok"

\* a get_metrics call has returned its report
MetricsDone == pc = "idle" /\ result.tool = "get_metrics" /\ result.kind = "ok"

\* the conversations created on or after the calendar date of now - days
WindowRows(now, days) ==
    {i \in DOMAIN conversations :
        conversations[i].created_at[1] >= (now - days * HoursPerDay) \div HoursPerDay}

\* the conversations created at or after the point in time now - days
ExactWindowRows(now, days) ==
    {i \in DOMAIN conversations :
        At(conversations[i].created_at[1], conversations[i].created_at[2])
            >= now - days * HoursPerDay}

RECURSIVE SumCounts(_)
SumCounts(rows) == IF rows = <<>> THEN 0 ELSE rows[1].count + SumCounts(Tail(rows))

\* C1: get_contact(id) returns the record of the create_contact call that
\* returned id: name, email, phone and company as passed (null when omitted),
\* tags as passed ([] when omitted); for an id no create_contact call
\* returned it returns null, as a successful result.
C1_GetContactRoundTrip ==
    (server = "crm-integration" /\ result.tool = "get_contact") =>
        LET id == result.args.contact_id
            calls == {i \in DOMAIN created : created[i][2] = id}
        IN  /\ result.kind = "ok"
            /\ calls = {} => result.text = JsonNull
            /\ \A i \in calls :
                  LET a == created[i][1]
                  IN  result.text =
                         [id |-> id,
                          name |-> a.name,
                          email |-> IF "email" \in DOMAIN a THEN a.email ELSE None,
                          phone |-> IF "phone" \in DOMAIN a THEN a.phone ELSE None,
                          company |-> IF "company" \in DOMAIN a THEN a.company ELSE None,
                          tags |-> IF "tags" \in DOMAIN a THEN a.tags ELSE <<>>]

C1_Witness ==
    /\ server = "crm-integration"
    /\ result.tool = "get_contact"
    /\ result.kind = "ok"
    /\ result.text # JsonNull
    /\ result.text.name = "Bo"
    /\ result.text.company = "Acme"
    /\ result.text.tags = <<"vip", "lead">>

\* C2: the ids returned by successive create_contact calls are pairwise
\* different and each is greater than the one returned before it.
C2_IdsIncrease ==
    \A i, j \in DOMAIN created : i < j => created[i][2] < created[j][2]

C2_Witness ==
    /\ Len(created) >= 2
    /\ result.tool = "create_contact"
    /\ result.kind = "ok"
    /\ result.text.contact_id = created[Len(created)][2]

\* C3: in both servers a call with a name that is not a registered tool fails
\* with the unknown-tool error carrying that name and leaves the store as it
\* was.
C3_UnknownTool ==
    [][ (result' # result /\ result'.tool # "" /\ result'.tool \notin ToolNames) =>
            /\ result'.kind = "error"
            /\ result'.text = [error |-> "ValueError",
                               message |-> <<"Unknown tool: ", result'.tool>>]
            /\ UNCHANGED store ]_vars

C3_Witness ==
    /\ result.tool = "nonexistent_tool"
    /\ result.kind = "error"
    /\ Len(contacts) > 0

\* C4: a report of a call with no write during it has completion_rate equal
\* to completed_flows / total_conversations when total_conversations > 0 and
\* 0 when it is 0; with N completed and N other conversations in the window
\* it has completed_flows = N and completion_rate = 1/2.
C4_CompletionRate ==
    (MetricsDone /\ ~wrote) =>
        LET r == result.text
            W == WindowRows(frame.now, frame.days)
            done == {i \in W : conversations[i].status = "completed"}
        IN  /\ r.total_conversations > 0 =>
                  /\ r.completion_rate[2] > 0
                  /\ r.completion_rate[1] * r.total_conversations
                        = r.completed_flows * r.completion_rate[2]
            /\ r.total_conversations = 0 => r.completion_rate = <<0, 1>>
            /\ (done # {} /\ Cardinality(done) = Cardinality(W \ done)) =>
                  /\ r.completed_flows = Cardinality(done)
                  /\ r.completion_rate = <<1, 2>>

C4_Witness ==
    /\ MetricsDone
    /\ ~wrote
    /\ result.text.total_conversations = 2
    /\ result.text.completed_flows = 1
    /\ result.text.completion_rate = <<1, 2>>

\* C5: in each server the first facade operation on a store file succeeds,
\* the tables it needs being created on first use, and running the schema
\* creation again changes no row.
C5_TablesEnsured ==
    [][ /\ (result' # result /\ result'.tool \in ToolNames) => result'.kind = "ok"
        /\ Start => UNCHANGED <<contacts, deals, analytics, conversations>> ]_vars

\* C6: create_deal succeeds for any contact_id, stores exactly one deal with
\* the fields passed, stage "new" when omitted, and returns that deal's id.
C6_CreateDeal ==
    (server = "crm-integration" /\ result.tool = "create_deal") =>
        /\ result.kind = "ok"
        /\ LET a == result.args
               rows == {i \in DOMAIN deals : deals[i].id = result.text.deal_id}
           IN  /\ Cardinality(rows) = 1
               /\ \A i \in rows :
                     deals[i] =
                        [id |-> result.text.deal_id,
                         contact_id |-> a.contact_id,
                         title |-> a.title,
                         value |-> a.value,
                         stage |-> IF "stage" \in DOMAIN a THEN a.stage ELSE "new"]

C6_Witness ==
    /\ server = "crm-integration"
    /\ result.tool = "create_deal"
    /\ result.kind = "ok"
    /\ result.args.contact_id = 9
    /\ "stage" \notin DOMAIN result.args
    /\ \A i \in DOMAIN contacts : contacts[i].id # 9
    /\ \E i \in DOMAIN deals : deals[i].contact_id = 9 /\ deals[i].stage = "new"

\* C7: every step keeps every stored row, unchanged and in place; a
\* successful track_event, create_contact or create_deal adds exactly one row
\* to its own table and touches no other; get_contact and get_metrics add,
\* change and remove nothing.
C7_AppendOnly ==
    [][ /\ IsPrefix(contacts, contacts')
        /\ IsPrefix(deals, deals')
        /\ IsPrefix(analytics, analytics')
        /\ IsPrefix(conversations, conversations')
        /\ ToolStep("create_contact") =>
              /\ Len(contacts') = Len(contacts) + 1
              /\ UNCHANGED <<deals, analytics, conversations>>
        /\ ToolStep("create_deal") =>
              /\ Len(deals') = Len(deals) + 1
              /\ UNCHANGED <<contacts, analytics, conversations>>
        /\ (ToolStep("track_event") \/ analytics' # analytics) =>
              /\ Len(analytics') = Len(analytics) + 1
              /\ UNCHANGED <<contacts, deals, conversations>>
        /\ (ToolStep("get_contact") \/ ToolStep("get_metrics") \/ pc' # pc) =>
              UNCHANGED <<contacts, deals, analytics, conversations>> ]_vars

C7_Witness ==
    /\ Len(analytics) = 2
    /\ analytics[1].event_type = "signup"
    /\ analytics[2].event_type = "signup"
    /\ analytics[1].metadata # analytics[2].metadata

\* C8 as stated: total_conversations counts exactly the conversations created
\* at or after the point in time now - days.
C8_ExactCutoff ==
    (pc = "completed" /\ ~wrote) =>
        frame.total_conversations
            = Cardinality(ExactWindowRows(frame.now, frame.days))

\* C8 as amended: total_conversations counts exactly the conversations
\* created on or after the calendar date of now - days, whatever the time of
\* day of the call.
C8_DateCutoff ==
    (pc = "completed" /\ ~wrote) =>
        frame.total_conversations = Cardinality(WindowRows(frame.now, frame.days))

C8_Witness ==
    /\ pc = "completed"
    /\ ~wrote
    /\ frame.now = At(10, 15)
    /\ frame.days = 7
    /\ frame.total_conversations = 1
    /\ Len(conversations) = 2
    /\ \E i \in DOMAIN conversations : conversations[i].created_at = <<3, 14>>
    /\ \E i \in DOMAIN conversations : conversations[i].created_at = <<2, 23>>

\* C9: with no write during the call, top_flows has at most 5 entries, all
\* of different flows, each with the number of conversations of its flow in
\* the window, in non-increasing order of count, and no flow left out has
\* more conversations than one that is in.
C9_TopFlows ==
    (MetricsDone /\ ~wrote) =>
        LET top == result.text.top_flows
            W == WindowRows(frame.now, frame.days)
            G == {conversations[i].current_flow : i \in W}
            n(f) == Cardinality({i \in W : conversations[i].current_flow = f})
            inTop == {top[i].flow : i \in DOMAIN top}
        IN  /\ Len(top) <= 5
            /\ Len(top) = IF Cardinality(G) < 5 THEN Cardinality(G) ELSE 5
            /\ \A i, j \in DOMAIN top : i # j => top[i].flow # top[j].flow
            /\ \A i \in DOMAIN top : top[i].flow \in G /\ top[i].count = n(top[i].flow)
            /\ \A i, j \in DOMAIN top : i < j => top[i].count >= top[j].count
            /\ \A g \in G \ inTop : \A i \in DOMAIN top : n(g) <= top[i].count

C9_Witness ==
    /\ MetricsDone
    /\ ~wrote
    /\ Len(result.text.top_flows) = 5
    /\ Cardinality(Groups(frame.since_date)) > 5
    /\ result.text.top_flows[1].count = 2
    /\ result.text.top_flows[5].count = 1
    /\ \E g \in Groups(frame.since_date) :
          /\ GroupCount(g, frame.since_date) = 1
          /\ \A i \in 1..5 : result.text.top_flows[i].flow # g

\* the report is consistent with itself
Consistent(r) ==
    /\ r.completed_flows <= r.total_conversations
    /\ 0 <= r.completion_rate[1]
    /\ r.completion_rate[1] <= r.completion_rate[2]
    /\ SumCounts(r.top_flows) <= r.total_conversations

\* C10 as stated: every report has completed_flows <= total_conversations,
\* 0 <= completion_rate <= 1 and the top_flows counts summing to at most
\* total_conversations, also when rows are inserted between the reads.
C10_ConsistentAlways == MetricsDone => Consistent(result.text)

\* C10 as amended: the same, for the reports of calls during which no
\* conversation row was written.
C10_ConsistentQuiet == (MetricsDone /\ ~wrote) => Consistent(result.text)

C10_Witness ==
    /\ MetricsDone
    /\ ~wrote
    /\ result.text.total_conversations = 2
    /\ result.text.completed_flows = 2
    /\ Len(result.text.top_flows) = 2

=============================================================================
